---- MODULE Spec2Model ----
(***************************************************************************)
(* Cartoon Launch Agent: the video generation pipeline                     *)
(* (generateCartoonVideo, renderFrames, encodeVideo, normalizePalette,     *)
(* buildScenes), the /api/generate POST handler that drives it, and the    *)
(* metadata-bundle writer (publishToPlatforms).                            *)
(*                                                                         *)
(* JavaScript strings are sequences of one-character strings; a JS number  *)
(* produced by a division is a record [kind, num, den] so that NaN and     *)
(* Infinity stay distinguishable from ordinary quotients.                  *)
(***************************************************************************)
EXTENDS Integers, Sequences, FiniteSets, TLC

VARIABLES
    requests,        \* [Requests -> body]: the JSON body each HTTP request carries
    framesPerScene,  \* the framesPerScene argument handed to renderFrames
    job,             \* [Requests -> record]: locals of POST / generateCartoonVideo
    tmp,             \* [UUIDs -> NoDir or [file name -> content]]: os.tmpdir()/cartoon-<jobId>-*/frames
    publicDir,       \* whether public/generated exists
    video,           \* [UUIDs -> "absent" | "partial" | "complete"]: public/generated/<jobId>.mp4
    bundles,         \* [UUIDs -> set of platforms]: public/generated/<jobId>/<platform>.json
    call             \* a call of a pure helper made on its own: its arguments and its result

vars == <<requests, framesPerScene, job, tmp, publicDir, video, bundles, call>>

(***************************************************************************)
(* Program constants                                                       *)
(***************************************************************************)
FPS == 24
SCENE_DURATION_SECONDS == 3
PadWidth == 4
HexMinDigits == 3
HexMaxDigits == 6
PaletteMinLength == 3
ScriptMinLength == 10
PaletteMinEntries == 1
PaletteMaxEntries == 8

(***************************************************************************)
(* Bounds of the model                                                     *)
(***************************************************************************)
MaxSentences == 2        \* sentences in a generated script
MaxFramesPerScene == 3   \* framesPerScene values tried by the driver specification
MaxPaletteLen == 3       \* entries in a palette input
MaxDigits == 7           \* hex digits in a generated palette entry
MaxScriptLen == 5        \* characters of a generated script before padding
MaxSeqDigits == 5        \* decimal digits of the largest frame sequence number tried

Requests == {"r1", "r2"}
UUIDs == {"u1", "u2"}
Platforms == {"youtube", "tiktok", "x"}

(***************************************************************************)
(* Strings                                                                 *)
(***************************************************************************)
Whitespace == {" ", "\n", "\t"}
Terminators == {".", "!", "?"}
HexChars == {"0", "1", "2", "3", "4", "5", "6", "7", "8", "9",
             "a", "b", "c", "d", "e", "f", "A", "B", "C", "D", "E", "F"}
UpperHexChars == {"0", "1", "2", "3", "4", "5", "6", "7", "8", "9",
                  "A", "B", "C", "D", "E", "F"}

\* String.prototype.toUpperCase, one character
UpperChar(c) ==
    CASE c = "a" -> "A" [] c = "b" -> "B" [] c = "c" -> "C" [] c = "d" -> "D"
      [] c = "e" -> "E" [] c = "f" -> "F" [] c = "g" -> "G" [] c = "r" -> "R"
      [] c = "x" -> "X" [] c = "y" -> "Y" [] c = "z" -> "Z"
      [] OTHER -> c

toUpperCase(s) == [i \in 1..Len(s) |-> UpperChar(s[i])]

RECURSIVE trimStart(_)
trimStart(s) ==
    IF s # <<>> /\ Head(s) \in Whitespace THEN trimStart(Tail(s)) ELSE s

RECURSIVE trimEnd(_)
trimEnd(s) ==
    IF s # <<>> /\ s[Len(s)] \in Whitespace
    THEN trimEnd(SubSeq(s, 1, Len(s) - 1))
    ELSE s

\* String.prototype.trim
trim(s) == trimEnd(trimStart(s))

\* the null returned by sanitizeHex: no colour string has a multi-character element
Null == <<"null">>

(***************************************************************************)
(* Palette normalizer                                                      *)
(***************************************************************************)
\* /^#?[0-9A-Fa-f]{3,6}$/.test(cleaned)
HexPatternTest(cleaned) ==
    LET digits == IF cleaned # <<>> /\ Head(cleaned) = "#" THEN Tail(cleaned) ELSE cleaned
    IN  /\ Len(digits) >= HexMinDigits
        /\ Len(digits) <= HexMaxDigits
        /\ \A i \in 1..Len(digits) : digits[i] \in HexChars

\* mutant of sanitizeHex: the '#' prepended whether or not the entry has one
sanitizeHexAlwaysPrefix(hex) ==
    IF hex = <<>> \/ hex = Null THEN Null
    ELSE LET cleaned == trim(hex)
         IN  IF ~HexPatternTest(cleaned) THEN Null
             ELSE <<"#">> \o toUpperCase(cleaned)

sanitizeHex(hex) ==
    IF hex = <<>> \/ hex = Null THEN Null
    ELSE LET cleaned == trim(hex)
         IN  IF ~HexPatternTest(cleaned) THEN Null
             ELSE IF Head(cleaned) = "#" THEN toUpperCase(cleaned)
                  ELSE <<"#">> \o toUpperCase(cleaned)

\* Array.prototype.filter(Boolean) over strings and null
RECURSIVE filterBoolean(_)
filterBoolean(list) ==
    IF list = <<>> THEN <<>>
    ELSE IF Head(list) = Null \/ Head(list) = <<>>
         THEN filterBoolean(Tail(list))
         ELSE <<Head(list)>> \o filterBoolean(Tail(list))

FallbackPalette ==
    << <<"#", "3", "8", "B", "D", "F", "8">>,
       <<"#", "F", "A", "C", "C", "1", "5">>,
       <<"#", "F", "4", "7", "2", "B", "6">>,
       <<"#", "A", "8", "5", "5", "F", "7">> >>

normalizePalette(input) ==
    LET sanitized == filterBoolean([i \in 1..Len(input) |-> sanitizeHex(input[i])])
    IN  IF Len(sanitized) >= PaletteMinLength THEN sanitized ELSE FallbackPalette

(***************************************************************************)
(* Scene segmenter                                                         *)
(***************************************************************************)
\* String.prototype.split(/\n+/): pieces between maximal runs of newlines
RECURSIVE splitLines(_, _, _, _)
splitLines(s, i, cur, acc) ==
    IF i > Len(s) THEN Append(acc, cur)
    ELSE IF s[i] = "\n"
         THEN IF i > 1 /\ s[i - 1] = "\n"
              THEN splitLines(s, i + 1, cur, acc)
              ELSE splitLines(s, i + 1, <<>>, Append(acc, cur))
         ELSE splitLines(s, i + 1, Append(cur, s[i]), acc)

\* String.prototype.split(/(?<=[.!?])/): cut after every terminator but the last character
RECURSIVE splitSentences(_, _, _, _)
splitSentences(s, i, cur, acc) ==
    IF i > Len(s) THEN Append(acc, cur)
    ELSE IF s[i] \in Terminators /\ i < Len(s)
         THEN splitSentences(s, i + 1, <<>>, Append(acc, Append(cur, s[i])))
         ELSE splitSentences(s, i + 1, Append(cur, s[i]), acc)

RECURSIVE flatMapSentences(_)
flatMapSentences(lines) ==
    IF lines = <<>> THEN <<>>
    ELSE splitSentences(Head(lines), 1, <<>>, <<>>) \o flatMapSentences(Tail(lines))

FallbackFragments ==
    << <<"Introduce the brand hero.">>,
       <<"Showcase the top features.">>,
       <<"Call fans to action with energy.">> >>

\* mutant of buildScenes: the scenes indexed from 1
buildScenesOneBased(script) ==
    LET pieces == flatMapSentences(splitLines(script, 1, <<>>, <<>>))
        fragments == filterBoolean([i \in 1..Len(pieces) |-> trim(pieces[i])])
        safeFragments == IF Len(fragments) > 0 THEN fragments ELSE FallbackFragments
    IN  [i \in 1..Len(safeFragments) |->
            [text |-> safeFragments[i], index |-> i, total |-> Len(safeFragments)]]

buildScenes(script) ==
    LET pieces == flatMapSentences(splitLines(script, 1, <<>>, <<>>))
        fragments == filterBoolean([i \in 1..Len(pieces) |-> trim(pieces[i])])
        safeFragments == IF Len(fragments) > 0 THEN fragments ELSE FallbackFragments
    IN  [i \in 1..Len(safeFragments) |->
            [text |-> safeFragments[i], index |-> i - 1, total |-> Len(safeFragments)]]

(***************************************************************************)
(* Numbers and file names                                                  *)
(***************************************************************************)
\* the JS division a / b of two non-negative integers
Divide(a, b) ==
    IF b # 0 THEN [kind |-> "number", num |-> a, den |-> b]
    ELSE IF a = 0 THEN [kind |-> "NaN", num |-> 0, den |-> 0]
         ELSE [kind |-> "Infinity", num |-> a, den |-> 0]

DigitChar(d) ==
    CASE d = 0 -> "0" [] d = 1 -> "1" [] d = 2 -> "2" [] d = 3 -> "3" [] d = 4 -> "4"
      [] d = 5 -> "5" [] d = 6 -> "6" [] d = 7 -> "7" [] d = 8 -> "8" [] OTHER -> "9"

\* String(n) of a non-negative integer
RECURSIVE String(_)
String(n) ==
    IF n < 10 THEN <<DigitChar(n)>> ELSE Append(String(n \div 10), DigitChar(n % 10))

\* String.prototype.padStart(width, fill) with a one-character fill
RECURSIVE padStart(_, _, _)
padStart(s, width, fill) ==
    IF Len(s) >= width THEN s ELSE padStart(<<fill>> \o s, width, fill)

\* mutant of FrameSeq: the frames numbered from 0
FrameSeqZeroBased(frameIndex) == frameIndex

\* the 1-based sequence number a frame is stored under: frameIndex + 1
FrameSeq(frameIndex) == frameIndex + 1

\* `frame_${String(frameIndex + 1).padStart(4, "0")}.png`
FrameFileName(frameIndex) ==
    <<"frame_">> \o padStart(String(FrameSeq(frameIndex)), PadWidth, "0") \o <<".png">>

\* const progress = localIndex / (framesPerScene - 1)
Progress(localIndex, fps) == Divide(localIndex, fps - 1)

(***************************************************************************)
(* Request bodies                                                          *)
(***************************************************************************)
NoRequest == [absent |-> TRUE]

RECURSIVE Repeat(_, _)
Repeat(s, n) == IF n = 0 THEN <<>> ELSE s \o Repeat(s, n - 1)

RECURSIVE padEnd(_, _, _)
padEnd(s, width, fill) ==
    IF Len(s) >= width THEN s ELSE padEnd(Append(s, fill), width, fill)

Sentence == <<"G", "o", " ", "o", "n", "!", " ">>
ShortScript == <<"H", "i", ".">>
\* a script of n sentences, padded with blanks to the schema's minimum length
ScriptOf(n) == padEnd(Repeat(Sentence, n), ScriptMinLength, " ")
Scripts == {ScriptOf(n) : n \in 0..MaxSentences} \cup {ShortScript}

SamplePalette ==
    << <<"#", "f", "f", "f">>, <<"0", "0", "0">>, <<" ", "#", "a", "B", "c", "1", "2", "3">> >>

\* requestSchema.parse(body): the bounds the model's bodies can miss
SchemaOk(body) ==
    /\ Len(body.script) >= ScriptMinLength
    /\ Len(body.palette) >= PaletteMinEntries
    /\ Len(body.palette) <= PaletteMaxEntries
    /\ body.platforms # {}

(***************************************************************************)
(* Job state                                                               *)
(***************************************************************************)
NoFrame == [absent |-> TRUE]
NoResult == [absent |-> TRUE]
NoResponse == [absent |-> TRUE]
NoDir == [exists |-> FALSE, frames |-> FALSE, files |-> <<>>]

IdleJob ==
    [pc |-> "idle", jobId |-> "none", timeline |-> <<>>, palette |-> <<>>,
     scenes |-> <<>>, totalFrames |-> 0, sceneIdx |-> 0, localIndex |-> 0,
     frameIndex |-> 0, canvas |-> NoFrame, writeLog |-> <<>>, encoder |-> "none",
     encoderInput |-> {}, generation |-> NoResult, publishDone |-> {},
     response |-> NoResponse, failedAt |-> "none"]

InitialTimeline ==
    << [label |-> "Storyboard synthesized", completed |-> FALSE],
       [label |-> "Frames rendered", completed |-> FALSE],
       [label |-> "Video authored", completed |-> FALSE] >>

\* mutant of Complete: the next checkpoint marked instead
CompleteOffByOne(timeline, k) ==
    [timeline EXCEPT ![IF k < Len(timeline) THEN k + 1 ELSE k].completed = TRUE]

\* timeline[k]!.completed = true
Complete(timeline, k) == [timeline EXCEPT ![k].completed = TRUE]

UsedIds == {job[r].jobId : r \in Requests} \ {"none"}

\* mutant of LoopAdvance: the two loops nested the other way round
LoopAdvanceSwapped(sceneIdx, localIndex, sceneCount, fps) ==
    IF sceneIdx < sceneCount
    THEN [sceneIdx |-> sceneIdx + 1, localIndex |-> localIndex, done |-> FALSE]
    ELSE IF localIndex + 1 < fps
         THEN [sceneIdx |-> 1, localIndex |-> localIndex + 1, done |-> FALSE]
         ELSE [sceneIdx |-> sceneIdx, localIndex |-> localIndex + 1, done |-> TRUE]

\* position of the two nested for-loops of renderFrames after the body has run once
LoopAdvance(sceneIdx, localIndex, sceneCount, fps) ==
    IF localIndex + 1 < fps
    THEN [sceneIdx |-> sceneIdx, localIndex |-> localIndex + 1, done |-> FALSE]
    ELSE IF sceneIdx < sceneCount
         THEN [sceneIdx |-> sceneIdx + 1, localIndex |-> 0, done |-> FALSE]
         ELSE [sceneIdx |-> sceneIdx, localIndex |-> localIndex + 1, done |-> TRUE]

\* mutant of FailureResponse: the error body still carries the video URL
FailureResponseWithUrl(j) ==
    [status |-> 500, error |-> "Failed to generate or publish the cartoon video.",
     videoUrl |-> <<"/generated/", j.jobId, ".mp4">>]

\* the body returned by the catch block of POST
FailureResponse(j) ==
    [status |-> 500, error |-> "Failed to generate or publish the cartoon video."]

(***************************************************************************)
(* Paths, as sequences of path components                                  *)
(***************************************************************************)
\* fs.mkdtemp(path.join(os.tmpdir(), `cartoon-${jobId}-`))
tempDir(jobId) == <<"tmpdir", "cartoon-", jobId, "-">>

\* path.join(tempDir, "frames")
frameDir(jobId) == tempDir(jobId) \o <<"frames">>

\* path.join(frameDir, fileName)
filePath(jobId, frameIndex) == frameDir(jobId) \o FrameFileName(frameIndex)

\* mutant of videoPath: one output file for every job
videoPathShared(jobId) == <<"public", "generated", "video", ".mp4">>

\* path.join(process.cwd(), "public", "generated", `${jobId}.mp4`)
videoPath(jobId) == <<"public", "generated", jobId, ".mp4">>

\* path.join(process.cwd(), "public", "generated", payload.jobId)
outputDir(jobId) == <<"public", "generated", jobId>>

\* path.join(outputDir, `${platform}.json`)
recordPath(jobId, platform) == outputDir(jobId) \o <<platform, ".json">>

\* the value generateCartoonVideo returns
GenerationResult(j) ==
    [jobId |-> j.jobId, timeline |-> j.timeline,
     videoPath |-> videoPath(j.jobId),
     publicUrl |-> <<"/generated/", j.jobId, ".mp4">>,
     frameCount |-> j.totalFrames]

(***************************************************************************)
(* POST /api/generate and generateCartoonVideo, one step per await         *)
(***************************************************************************)
Set(r, j) == job' = [job EXCEPT ![r] = j]

\* POST: parse the body; a valid one enters generateCartoonVideo (jobId, timeline)
POST(r) ==
    /\ job[r].pc = "idle"
    /\ requests[r] # NoRequest
    /\ \/ /\ ~SchemaOk(requests[r])
          /\ Set(r, [job[r] EXCEPT !.pc = "responded",
                                   !.response = [status |-> 400, error |-> "Invalid payload"]])
       \/ /\ SchemaOk(requests[r])
          /\ \E u \in UUIDs \ UsedIds :
                Set(r, [job[r] EXCEPT !.pc = "segment", !.jobId = u,
                                      !.timeline = InitialTimeline])
    /\ UNCHANGED <<call, requests, framesPerScene, tmp, publicDir, video, bundles>>

\* normalizePalette, buildScenes, first checkpoint
Segment(r) ==
    /\ job[r].pc = "segment"
    /\ Set(r, [job[r] EXCEPT !.pc = "mkdtemp",
                             !.palette = normalizePalette(requests[r].palette),
                             !.scenes = buildScenes(requests[r].script),
                             !.timeline = Complete(job[r].timeline, 1)])
    /\ UNCHANGED <<call, requests, framesPerScene, tmp, publicDir, video, bundles>>

\* fs.mkdtemp(os.tmpdir()/cartoon-<jobId>-)
MkdTemp(r) ==
    /\ job[r].pc = "mkdtemp"
    /\ tmp' = [tmp EXCEPT ![job[r].jobId] = [exists |-> TRUE, frames |-> FALSE, files |-> <<>>]]
    /\ Set(r, [job[r] EXCEPT !.pc = "mkdir"])
    /\ UNCHANGED <<call, requests, framesPerScene, publicDir, video, bundles>>

\* fs.mkdir(frameDir); totalFrames; renderFrames starts its loops
MkdirFrames(r) ==
    /\ job[r].pc = "mkdir"
    /\ tmp[job[r].jobId].exists
    /\ tmp' = [tmp EXCEPT ![job[r].jobId].frames = TRUE]
    /\ Set(r, [job[r] EXCEPT
            !.pc = IF Len(job[r].scenes) > 0 /\ framesPerScene > 0 THEN "paint" ELSE "rendered",
            !.totalFrames = framesPerScene * Len(job[r].scenes),
            !.frameIndex = 0, !.sceneIdx = 1, !.localIndex = 0])
    /\ UNCHANGED <<call, requests, framesPerScene, publicDir, video, bundles>>

\* one loop body up to canvas.encode("png"): progress, the five paint calls, the file name
PaintFrame(r) ==
    /\ job[r].pc = "paint"
    /\ Set(r, [job[r] EXCEPT
            !.pc = "write",
            !.canvas = [scene |-> job[r].scenes[job[r].sceneIdx].index,
                        localIndex |-> job[r].localIndex,
                        progress |-> Progress(job[r].localIndex, framesPerScene),
                        seq |-> FrameSeq(job[r].frameIndex),
                        fileName |-> FrameFileName(job[r].frameIndex)]])
    /\ UNCHANGED <<call, requests, framesPerScene, tmp, publicDir, video, bundles>>

\* mutant of WriteFrame: writeFile not awaited, the loop goes on before the file exists
WriteFrameNotAwaited(r) ==
    LET j == job[r]
        next == LoopAdvance(j.sceneIdx, j.localIndex, Len(j.scenes), framesPerScene)
    IN  /\ j.pc = "write"
        /\ Set(r, [j EXCEPT
                !.pc = IF next.done THEN "rendered" ELSE "paint",
                !.writeLog = Append(@, j.canvas),
                !.canvas = NoFrame,
                !.frameIndex = j.frameIndex + 1,
                !.sceneIdx = next.sceneIdx, !.localIndex = next.localIndex])
        /\ UNCHANGED <<call, requests, framesPerScene, tmp, publicDir, video, bundles>>

\* fs.writeFile(filePath, buffer); frameIndex += 1; the loops advance
WriteFrame(r) ==
    LET j == job[r]
        next == LoopAdvance(j.sceneIdx, j.localIndex, Len(j.scenes), framesPerScene)
    IN  /\ j.pc = "write"
        /\ tmp[j.jobId].frames
        /\ tmp' = [tmp EXCEPT ![j.jobId].files = (j.canvas.fileName :> j.canvas) @@ @]
        /\ Set(r, [j EXCEPT
                !.pc = IF next.done THEN "rendered" ELSE "paint",
                !.writeLog = Append(@, j.canvas),
                !.canvas = NoFrame,
                !.frameIndex = j.frameIndex + 1,
                !.sceneIdx = next.sceneIdx, !.localIndex = next.localIndex])
        /\ UNCHANGED <<call, requests, framesPerScene, publicDir, video, bundles>>

\* renderFrames has resolved: second checkpoint
MarkRendered(r) ==
    /\ job[r].pc = "rendered"
    /\ Set(r, [job[r] EXCEPT !.pc = "mkpublic", !.timeline = Complete(job[r].timeline, 2)])
    /\ UNCHANGED <<call, requests, framesPerScene, tmp, publicDir, video, bundles>>

\* fs.mkdir(public/generated)
MkdirPublic(r) ==
    /\ job[r].pc = "mkpublic"
    /\ publicDir' = TRUE
    /\ Set(r, [job[r] EXCEPT !.pc = "encode"])
    /\ UNCHANGED <<call, requests, framesPerScene, tmp, video, bundles>>

\* encodeVideo: ffmpeg().addInput(frameDir/frame_%04d.png)...run()
StartEncode(r) ==
    /\ job[r].pc = "encode"
    /\ Set(r, [job[r] EXCEPT !.pc = "encoding", !.encoder = "running",
                             !.encoderInput = DOMAIN tmp[job[r].jobId].files])
    /\ UNCHANGED <<call, requests, framesPerScene, tmp, publicDir, video, bundles>>

\* .on("end", () => resolve())
EncodeEnd(r) ==
    /\ job[r].pc = "encoding"
    /\ video' = [video EXCEPT ![job[r].jobId] = "complete"]
    /\ Set(r, [job[r] EXCEPT !.pc = "encoded", !.encoder = "end"])
    /\ UNCHANGED <<call, requests, framesPerScene, tmp, publicDir, bundles>>

\* encodeVideo has resolved: third checkpoint
MarkEncoded(r) ==
    /\ job[r].pc = "encoded"
    /\ Set(r, [job[r] EXCEPT !.pc = "rm", !.timeline = Complete(job[r].timeline, 3)])
    /\ UNCHANGED <<call, requests, framesPerScene, tmp, publicDir, video, bundles>>

\* mutant of RemoveTemp: the result returned without removing the temp directory
RemoveTempSkipped(r) ==
    /\ job[r].pc = "rm"
    /\ Set(r, [job[r] EXCEPT !.pc = "publish", !.generation = GenerationResult(job[r])])
    /\ UNCHANGED <<call, requests, framesPerScene, tmp, publicDir, video, bundles>>

\* fs.rm(tempDir, {recursive, force}); return the result; POST starts publishToPlatforms
RemoveTemp(r) ==
    /\ job[r].pc = "rm"
    /\ tmp' = [tmp EXCEPT ![job[r].jobId] = NoDir]
    /\ Set(r, [job[r] EXCEPT !.pc = "publish", !.generation = GenerationResult(job[r])])
    /\ UNCHANGED <<call, requests, framesPerScene, publicDir, video, bundles>>

\* a rejected await inside generateCartoonVideo: the exception reaches POST's catch
GenerateFailure(r) ==
    LET j == job[r]
        failed == [j EXCEPT !.pc = "failed", !.failedAt = j.pc,
                            !.response = FailureResponse(j)]
    IN  /\ j.pc \in {"mkdtemp", "mkdir", "paint", "write", "mkpublic", "encoding", "rm"}
        /\ \/ /\ j.pc \in {"mkdtemp", "mkdir", "paint", "mkpublic", "rm"}
              /\ Set(r, failed)
              /\ UNCHANGED <<tmp, video>>
           \/ \* a failed writeFile leaves no file or a truncated one
              /\ j.pc = "write"
              /\ Set(r, failed)
              /\ \/ UNCHANGED tmp
                 \/ tmp' = [tmp EXCEPT ![j.jobId].files =
                                (j.canvas.fileName :> [truncated |-> TRUE]) @@ @]
              /\ UNCHANGED video
           \/ \* .on("error", (error) => reject(error)): ffmpeg may have begun the output
              /\ j.pc = "encoding"
              /\ Set(r, [failed EXCEPT !.encoder = "error"])
              /\ \E out \in {"absent", "partial"} :
                    video' = [video EXCEPT ![j.jobId] = out]
              /\ UNCHANGED tmp
        /\ UNCHANGED <<call, requests, framesPerScene, publicDir, bundles>>

\* simulatePlatformUpload(platform, payload): mkdir, latency, writeFile
PublishWrite(r, p) ==
    /\ job[r].pc \in {"publish", "publishFailed"}
    /\ p \in requests[r].platforms \ job[r].publishDone
    /\ bundles' = [bundles EXCEPT ![job[r].jobId] = @ \cup {p}]
    /\ Set(r, [job[r] EXCEPT !.publishDone = @ \cup {p}])
    /\ UNCHANGED <<call, requests, framesPerScene, tmp, publicDir, video>>

\* one upload rejects: Promise.all rejects at once, the other uploads keep running
PublishFailure(r, p) ==
    /\ job[r].pc \in {"publish", "publishFailed"}
    /\ p \in requests[r].platforms \ job[r].publishDone
    /\ Set(r, [job[r] EXCEPT !.pc = "publishFailed", !.publishDone = @ \cup {p},
                             !.failedAt = IF job[r].pc = "publish" THEN "publish" ELSE @,
                             !.response = IF job[r].pc = "publish"
                                          THEN FailureResponse(job[r]) ELSE @])
    /\ UNCHANGED <<call, requests, framesPerScene, tmp, publicDir, video, bundles>>

\* NextResponse.json({jobId, videoUrl, frameCount, timeline, publish})
Respond(r) ==
    /\ job[r].pc = "publish"
    /\ job[r].publishDone = requests[r].platforms
    /\ Set(r, [job[r] EXCEPT
            !.pc = "responded",
            !.response = [status |-> 200, jobId |-> job[r].generation.jobId,
                          videoUrl |-> job[r].generation.publicUrl,
                          frameCount |-> job[r].generation.frameCount,
                          timeline |-> job[r].generation.timeline,
                          publish |-> job[r].publishDone]])
    /\ UNCHANGED <<call, requests, framesPerScene, tmp, publicDir, video, bundles>>

Next ==
    \E r \in Requests :
        \/ POST(r)
        \/ Segment(r)
        \/ MkdTemp(r)
        \/ MkdirFrames(r)
        \/ PaintFrame(r)
        \/ WriteFrame(r)
        \/ MarkRendered(r)
        \/ MkdirPublic(r)
        \/ StartEncode(r)
        \/ EncodeEnd(r)
        \/ MarkEncoded(r)
        \/ RemoveTemp(r)
        \/ GenerateFailure(r)
        \/ \E p \in Platforms : PublishWrite(r, p) \/ PublishFailure(r, p)
        \/ Respond(r)

(***************************************************************************)
(* Specifications                                                          *)
(***************************************************************************)
NoCall == [fn |-> "none"]

InitStorage ==
    /\ call = NoCall
    /\ job = [r \in Requests |-> IdleJob]
    /\ tmp = [u \in UUIDs |-> NoDir]
    /\ publicDir \in BOOLEAN
    /\ video = [u \in UUIDs |-> "absent"]
    /\ bundles = [u \in UUIDs |-> {}]

\* one request, the frame count per scene the program computes
Init ==
    /\ InitStorage
    /\ framesPerScene = FPS * SCENE_DURATION_SECONDS
    /\ \E script \in Scripts, platforms \in SUBSET Platforms :
          requests = [r \in Requests |->
                        IF r = "r1"
                        THEN [script |-> script, palette |-> SamplePalette,
                              platforms |-> platforms]
                        ELSE NoRequest]

Spec == Init /\ [][Next]_vars

\* renderFrames driven with every small framesPerScene as well
InitDriver ==
    /\ InitStorage
    /\ framesPerScene \in 1..MaxFramesPerScene \cup {FPS * SCENE_DURATION_SECONDS}
    /\ \E script \in Scripts :
          requests = [r \in Requests |->
                        IF r = "r1"
                        THEN [script |-> script, palette |-> SamplePalette,
                              platforms |-> {"youtube"}]
                        ELSE NoRequest]

SpecDriver == InitDriver /\ [][Next]_vars

\* normalizePalette driven through POST with every small palette input
HexCycle == <<"a", "F", "0">>
HexRun(n) == [i \in 1..n |-> HexCycle[((i - 1) % Len(HexCycle)) + 1]]
PaletteEntries ==
    {<<"#">> \o HexRun(n) : n \in 0..MaxDigits}
    \cup {HexRun(HexMinDigits), HexRun(HexMaxDigits)}
    \cup {<<" ">> \o HexRun(HexMinDigits) \o <<"\t">>}
    \cup {<<>>, <<"r", "e", "d">>, <<"#", "x", "y", "z">>,
          <<"#", "#", "a", "F", "0">>, <<"a", "F", "0", "#">>}

RECURSIVE SeqsUpTo(_, _)
SeqsUpTo(S, n) ==
    IF n = 0 THEN {<<>>}
    ELSE LET shorter == SeqsUpTo(S, n - 1)
         IN  shorter \cup {Append(s, e) : s \in shorter, e \in S}

InitPalette ==
    /\ InitStorage
    /\ publicDir = FALSE
    /\ framesPerScene = FPS * SCENE_DURATION_SECONDS
    /\ \E input \in SeqsUpTo(PaletteEntries, MaxPaletteLen) :
          requests = [r \in Requests |->
                        IF r = "r1"
                        THEN [script |-> ScriptOf(1), palette |-> input,
                              platforms |-> {"youtube"}]
                        ELSE NoRequest]

NextPalette == \E r \in Requests : POST(r) \/ Segment(r)

SpecPalette == InitPalette /\ [][NextPalette]_vars

\* buildScenes driven through POST with every short script, padded with blanks to the
\* schema's minimum length
ScriptChars == {"a", ".", "?", " ", "\n"}

InitScenes ==
    /\ InitStorage
    /\ publicDir = FALSE
    /\ framesPerScene = FPS * SCENE_DURATION_SECONDS
    /\ \E core \in SeqsUpTo(ScriptChars, MaxScriptLen) :
          requests = [r \in Requests |->
                        IF r = "r1"
                        THEN [script |-> padEnd(core, ScriptMinLength, " "),
                              palette |-> SamplePalette, platforms |-> {"youtube"}]
                        ELSE NoRequest]

NextScenes == \E r \in Requests : POST(r) \/ Segment(r)

SpecScenes == InitScenes /\ [][NextScenes]_vars

\* two requests in flight at once, a few frames per scene
InitTwoJobs ==
    /\ InitStorage
    /\ publicDir = FALSE
    /\ framesPerScene \in 1..MaxFramesPerScene
    /\ \E n \in 0..MaxSentences :
          requests = [r \in Requests |->
                        [script |-> ScriptOf(IF r = "r1" THEN 1 ELSE n),
                         palette |-> SamplePalette,
                         platforms |-> IF r = "r1" THEN {"youtube", "x"} ELSE {"youtube"}]]

SpecTwoJobs == InitTwoJobs /\ [][Next]_vars

\* the file names renderFrames gives to two frames of one job
RECURSIVE Pow10(_)
Pow10(k) == IF k = 0 THEN 1 ELSE 10 * Pow10(k - 1)

\* sequence numbers around every power of ten a frame count can cross
SeqSamples ==
    {1} \cup UNION {{Pow10(k) - 1, Pow10(k), Pow10(k) + 1} : k \in 1..(MaxSeqDigits - 1)}

InitFrameNames ==
    /\ job = [r \in Requests |-> IdleJob]
    /\ tmp = [u \in UUIDs |-> NoDir]
    /\ publicDir = FALSE
    /\ video = [u \in UUIDs |-> "absent"]
    /\ bundles = [u \in UUIDs |-> {}]
    /\ requests = [r \in Requests |-> NoRequest]
    /\ framesPerScene = FPS * SCENE_DURATION_SECONDS
    /\ \E a, b \in SeqSamples :
          /\ a < b
          /\ call = [fn |-> "FrameFileName", a |-> a, b |-> b, ret |-> <<>>]

\* const fileName = `frame_${...}.png` for the frames with sequence numbers a and b
NameFrames ==
    /\ call.fn = "FrameFileName"
    /\ call.ret = <<>>
    /\ call' = [call EXCEPT !.ret = <<FrameFileName(call.a - 1), FrameFileName(call.b - 1)>>]
    /\ UNCHANGED <<requests, framesPerScene, job, tmp, publicDir, video, bundles>>

SpecFrameNames == InitFrameNames /\ [][NameFrames]_vars

(***************************************************************************)
(* Tints: tweakColor and hexToRgb. A delta is held in hundredths (0.1 is   *)
(* 10); for the three deltas of paintBackground delta * 255 is exact in    *)
(* IEEE doubles (25.5, -38.25, 51), so integer arithmetic gives the same   *)
(* channels.                                                               *)
(***************************************************************************)
HexDigits == <<"0", "1", "2", "3", "4", "5", "6", "7", "8", "9",
               "A", "B", "C", "D", "E", "F">>

HexDigitValue(c) ==
    CASE c \in {"a", "A"} -> 10 [] c \in {"b", "B"} -> 11 [] c \in {"c", "C"} -> 12
      [] c \in {"d", "D"} -> 13 [] c \in {"e", "E"} -> 14 [] c \in {"f", "F"} -> 15
      [] OTHER -> CHOOSE d \in 0..9 : DigitChar(d) = c

\* parseInt(value, 16) of a string of hex digits
RECURSIVE parseInt16(_)
parseInt16(value) ==
    IF value = <<>> THEN 0
    ELSE 16 * parseInt16(SubSeq(value, 1, Len(value) - 1)) + HexDigitValue(value[Len(value)])

\* hex.replace("#", ""): the first '#' removed
RECURSIVE replaceHash(_)
replaceHash(hex) ==
    IF hex = <<>> THEN <<>>
    ELSE IF Head(hex) = "#" THEN Tail(hex)
         ELSE <<Head(hex)>> \o replaceHash(Tail(hex))

hexToRgb(hex) ==
    LET normalized == replaceHash(hex)
        value == IF Len(normalized) = 3
                 THEN [i \in 1..6 |-> normalized[(i + 1) \div 2]]
                 ELSE normalized
        int == parseInt16(value)
    IN  [r |-> (int \div 65536) % 256, g |-> (int \div 256) % 256, b |-> int % 256]

\* Math.round(num / den), den > 0: the nearest integer, halves rounded up
MathRound(num, den) == (2 * num + den) \div (2 * den)

Max(a, b) == IF a >= b THEN a ELSE b
Min(a, b) == IF a <= b THEN a ELSE b

\* mutant of adjust: the result not clamped
adjustUnclamped(value, delta) == MathRound(100 * value + delta * 255, 100)

\* Math.max(0, Math.min(255, Math.round(value + delta * 255))), delta in hundredths
adjust(value, delta) ==
    Max(0, Min(255, MathRound(100 * value + delta * 255, 100)))

\* the r, g, b of the `rgb(r, g, b)` string tweakColor returns
tweakColor(hex, delta) ==
    LET rgb == hexToRgb(hex)
    IN  [r |-> adjust(rgb.r, delta), g |-> adjust(rgb.g, delta), b |-> adjust(rgb.b, delta)]

\* the deltas paintBackground passes: 0.1, -0.15, 0.2
TintDeltas == {10, -15, 20}

Hex2(v) == <<HexDigits[(v \div 16) + 1], HexDigits[(v % 16) + 1]>>

\* colours covering every channel value, in the 6-digit and in the 3-digit form
TintInputs ==
    {[hex |-> <<"#">> \o Hex2(v) \o Hex2(255 - v) \o Hex2((2 * v) % 256),
      channels |-> <<v, 255 - v, (2 * v) % 256>>] : v \in 0..255}
    \cup {[hex |-> <<"#", HexDigits[k + 1], HexDigits[16 - k], HexDigits[k + 1]>>,
           channels |-> <<17 * k, 17 * (15 - k), 17 * k>>] : k \in 0..15}

InitTint ==
    /\ job = [r \in Requests |-> IdleJob]
    /\ tmp = [u \in UUIDs |-> NoDir]
    /\ publicDir = FALSE
    /\ video = [u \in UUIDs |-> "absent"]
    /\ bundles = [u \in UUIDs |-> {}]
    /\ requests = [r \in Requests |-> NoRequest]
    /\ framesPerScene = FPS * SCENE_DURATION_SECONDS
    /\ \E in \in TintInputs, delta \in TintDeltas :
          call = [fn |-> "tweakColor", hex |-> in.hex, channels |-> in.channels,
                  delta |-> delta, ret |-> <<>>]

\* tweakColor(base, 0.1), tweakColor(accent, -0.15), tweakColor(accent, 0.2)
Tint ==
    /\ call.fn = "tweakColor"
    /\ call.ret = <<>>
    /\ call' = [call EXCEPT !.ret = <<tweakColor(call.hex, call.delta)>>]
    /\ UNCHANGED <<requests, framesPerScene, job, tmp, publicDir, video, bundles>>

SpecTint == InitTint /\ [][Tint]_vars

(***************************************************************************)
(* Stages of the job orchestrator                                          *)
(***************************************************************************)
Stage(j) ==
    CASE j.pc = "idle" -> "Idle"
      [] j.pc = "segment" -> "Segmenting"
      [] j.pc \in {"mkdtemp", "mkdir", "paint", "write", "rendered"} -> "Rendering"
      [] j.pc \in {"mkpublic", "encode", "encoding", "encoded"} -> "Encoding"
      [] j.pc \in {"rm", "publish", "publishFailed"} -> "Done"
      [] j.pc = "responded" /\ j.generation # NoResult -> "Done"
      [] j.pc = "responded" /\ j.generation = NoResult -> "Rejected"
      [] OTHER -> "Failed"

StageRank(j) ==
    CASE Stage(j) = "Segmenting" -> 1
      [] Stage(j) = "Rendering" -> 2
      [] Stage(j) = "Encoding" -> 3
      [] Stage(j) = "Done" -> 4
      [] OTHER -> 0

Forward(j, k) == StageRank(j) > 0 /\ StageRank(k) = StageRank(j) + 1

CompletedCount(j) == Cardinality({k \in DOMAIN j.timeline : j.timeline[k].completed})

TotalFrames(j) == framesPerScene * Len(j.scenes)

FrameNames(n) == {FrameFileName(i) : i \in 0..(n - 1)}

\* generateCartoonVideo threw
GenerateFailed(j) == j.pc = "failed"

\* renderFrames has resolved
RenderCompleted(j) ==
    \/ j.pc \in {"rendered", "mkpublic", "encode", "encoding", "encoded", "rm",
                 "publish", "publishFailed"}
    \/ j.pc = "responded" /\ j.generation # NoResult
    \/ j.pc = "failed" /\ j.failedAt \in {"mkpublic", "encoding", "rm"}

(***************************************************************************)
(* Claims                                                                  *)
(***************************************************************************)

\* C1: once a job whose encode step failed has ended, there is no video file at
\* public/generated/<jobId>.mp4 and no frame file or temp directory of the job is left.
C1_EncodeFailureLeavesNothing ==
    \A r \in Requests :
        (job[r].pc = "failed" /\ job[r].failedAt = "encoding")
            => /\ video[job[r].jobId] = "absent"
               /\ tmp[job[r].jobId] = NoDir

\* C2: a job that failed inside generateCartoonVideo stays failed: no checkpoint is
\* completed afterwards, the response carries no video URL, no result was returned and no
\* metadata bundle is ever written for it.
C2_FailedIsAbsorbing ==
    /\ [](\A r \in Requests :
            GenerateFailed(job[r])
                => /\ job[r].response.status = 500
                   /\ "videoUrl" \notin DOMAIN job[r].response
                   /\ job[r].generation = NoResult
                   /\ job[r].publishDone = {}
                   /\ bundles[job[r].jobId] = {})
    /\ [][\A r \in Requests :
            GenerateFailed(job[r])
                => /\ job'[r] = job[r]
                   /\ bundles'[job[r].jobId] = bundles[job[r].jobId]]_vars

C2_Witness ==
    \E r \in Requests :
        /\ GenerateFailed(job[r])
        /\ job[r].failedAt = "encoding"
        /\ job[r].timeline[2].completed
        /\ ~job[r].timeline[3].completed

\* C3: a checkpoint never goes back from completed to not completed, the completed
\* checkpoints are always a prefix of the timeline, every forward stage transition completes
\* exactly one checkpoint and nothing else completes one.
C3_CheckpointsMonotone ==
    /\ [](\A r \in Requests : \A k \in DOMAIN job[r].timeline :
            (job[r].timeline[k].completed /\ k > 1) => job[r].timeline[k - 1].completed)
    /\ [][\A r \in Requests :
            /\ \A k \in DOMAIN job[r].timeline :
                  job[r].timeline[k].completed
                      => /\ k \in DOMAIN job'[r].timeline
                         /\ job'[r].timeline[k].completed
            /\ Forward(job[r], job'[r])
                  => CompletedCount(job'[r]) = CompletedCount(job[r]) + 1
            /\ CompletedCount(job'[r]) # CompletedCount(job[r])
                  => Forward(job[r], job'[r])]_vars

C3_Witness ==
    \E r \in Requests :
        /\ job[r].pc = "rm"
        /\ \A k \in 1..3 : job[r].timeline[k].completed

\* C4: the stages run in the order Segmenting, Rendering, Encoding, one at a time; the
\* encoder is started only when every frame of every scene is on disk, and a frame is
\* rendered only when every frame before it is on disk.
C4_StagesSequential ==
    /\ [](\A r \in Requests :
            LET j == job[r]
            IN  /\ j.encoder # "none"
                    => /\ j.encoderInput = FrameNames(TotalFrames(j))
                       /\ Cardinality(j.encoderInput) = TotalFrames(j)
                       /\ Stage(j) \in {"Encoding", "Done", "Failed"}
                /\ j.pc \in {"paint", "write"}
                    => /\ DOMAIN tmp[j.jobId].files = FrameNames(j.frameIndex)
                       /\ Cardinality(DOMAIN tmp[j.jobId].files) = j.frameIndex
                       /\ j.frameIndex < TotalFrames(j)
                /\ j.canvas # NoFrame
                    => /\ j.pc \in {"write", "failed"}
                       /\ j.canvas.seq = j.frameIndex + 1)
    /\ [][\A r \in Requests :
            \/ Stage(job'[r]) \in {Stage(job[r]), "Failed", "Rejected"}
            \/ Forward(job[r], job'[r])
            \/ Stage(job[r]) = "Idle" /\ Stage(job'[r]) = "Segmenting"]_vars

C4_Witness ==
    \E r \in Requests :
        /\ job[r].encoder = "running"
        /\ Len(job[r].scenes) > 1
        /\ Cardinality(job[r].encoderInput) = FPS * SCENE_DURATION_SECONDS * Len(job[r].scenes)

\* C5: generateCartoonVideo has returned a result only if the encoder ended cleanly; then
\* all three checkpoints are complete, the video is at the returned location and the job's
\* temp directory with its frames is gone.
C5_DoneImpliesEncodedAndCleaned ==
    \A r \in Requests :
        job[r].generation # NoResult
            => /\ job[r].encoder = "end"
               /\ \A k \in 1..3 : job[r].generation.timeline[k].completed
               /\ Len(job[r].generation.timeline) = 3
               /\ job[r].generation.publicUrl = <<"/generated/", job[r].jobId, ".mp4">>
               /\ job[r].generation.videoPath = <<"public", "generated", job[r].jobId, ".mp4">>
               /\ video[job[r].jobId] = "complete"
               /\ tmp[job[r].jobId] = NoDir

C5_Witness ==
    \E r \in Requests :
        /\ job[r].pc = "responded"
        /\ job[r].response.status = 200
        /\ job[r].generation # NoResult

\* C6: when renderFrames has resolved it has written framesPerScene * sceneCount frames,
\* numbered 1, 2, ... without gap or repetition, each under its own file name, and the
\* frameCount the job returns is the number of frames written.
C6_FrameCountExact ==
    \A r \in Requests :
        LET j == job[r]
        IN  RenderCompleted(j)
              => /\ Len(j.writeLog) = framesPerScene * Len(j.scenes)
                 /\ \A n \in 1..Len(j.writeLog) : j.writeLog[n].seq = n
                 /\ Cardinality({j.writeLog[n].fileName : n \in 1..Len(j.writeLog)})
                        = Len(j.writeLog)
                 /\ tmp[j.jobId].exists
                        => DOMAIN tmp[j.jobId].files
                              = {j.writeLog[n].fileName : n \in 1..Len(j.writeLog)}
                 /\ j.generation # NoResult
                        => j.generation.frameCount = Len(j.writeLog)

C6_Witness ==
    \E r \in Requests :
        /\ job[r].generation # NoResult
        /\ framesPerScene > 1
        /\ framesPerScene < FPS
        /\ Len(job[r].scenes) > 1
        /\ Len(job[r].writeLog) = framesPerScene * Len(job[r].scenes)

\* C7: the n-th frame written is the frame of scene (n-1) div framesPerScene at local index
\* (n-1) mod framesPerScene.
C7_FrameOrder ==
    \A r \in Requests :
        \A n \in 1..Len(job[r].writeLog) :
            /\ job[r].writeLog[n].scene = (n - 1) \div framesPerScene
            /\ job[r].writeLog[n].localIndex = (n - 1) % framesPerScene
            /\ job[r].writeLog[n].seq = n

C7_Witness ==
    \E r \in Requests :
        /\ framesPerScene > 1
        /\ Len(job[r].writeLog) = 2 * framesPerScene
        /\ job[r].writeLog[2 * framesPerScene].scene = 1
        /\ job[r].writeLog[2 * framesPerScene].localIndex = framesPerScene - 1

ContractValidHex(entry) ==
    LET cleaned == trim(entry)
        digits == IF cleaned # <<>> /\ Head(cleaned) = "#" THEN Tail(cleaned) ELSE cleaned
    IN  /\ Len(digits) \in {3, 6}
        /\ \A i \in 1..Len(digits) : digits[i] \in HexChars

\* '#' followed by 3 or 6 uppercase hexadecimal digits
IsNormalizedColour(c) ==
    /\ Len(c) \in {4, 7}
    /\ c[1] = "#"
    /\ \A i \in 2..Len(c) : c[i] \in UpperHexChars

\* the contract-valid entries of an input, in input order, uppercased and '#'-prefixed
RECURSIVE ContractValidEntries(_)
ContractValidEntries(input) ==
    IF input = <<>> THEN <<>>
    ELSE IF ContractValidHex(Head(input))
         THEN LET cleaned == toUpperCase(trim(Head(input)))
              IN  <<IF Head(cleaned) = "#" THEN cleaned ELSE <<"#">> \o cleaned>>
                  \o ContractValidEntries(Tail(input))
         ELSE ContractValidEntries(Tail(input))

\* the job has normalized its palette
Normalized(j) == j.pc = "mkdtemp"

\* C9: every entry of the normalized palette is '#' followed by 3 or 6 uppercase hex
\* digits, the palette has at least 3 entries, and unless it is the fallback it holds
\* exactly the entries with 3 or 6 hex digits (4 or 5 digits are dropped).
C9_OnlyThreeOrSixDigits ==
    \A r \in Requests :
        Normalized(job[r])
            => /\ Len(job[r].palette) >= 3
               /\ \A i \in 1..Len(job[r].palette) : IsNormalizedColour(job[r].palette[i])
               /\ \/ job[r].palette = FallbackPalette
                  \/ job[r].palette = ContractValidEntries(requests[r].palette)

\* C10: with fewer than 3 valid entries the normalized palette is exactly the 4-colour
\* fallback, with 3 or more it is exactly the valid entries in input order, uppercased and
\* '#'-prefixed.
C10_FallbackBelowThree ==
    \A r \in Requests :
        Normalized(job[r])
            => LET valid == ContractValidEntries(requests[r].palette)
               IN  job[r].palette = IF Len(valid) < 3 THEN FallbackPalette ELSE valid

\* C11: normalizing a normalized palette changes nothing:
\* normalizePalette(normalizePalette(x)) = normalizePalette(x).
C11_NormalizeIdempotent ==
    \A r \in Requests :
        Normalized(job[r]) => normalizePalette(job[r].palette) = job[r].palette

C11_Witness ==
    \E r \in Requests :
        /\ Normalized(job[r])
        /\ job[r].palette # FallbackPalette
        /\ job[r].palette # requests[r].palette
        /\ \E i \in 1..Len(job[r].palette) : Len(job[r].palette[i]) = 5

\* C12: buildScenes returns at least one scene; the scene at position i has index i,
\* total equal to the list length and a non-empty trimmed text; a script with no
\* non-empty fragment (only whitespace) yields exactly the 3-entry fallback.
C12_ScenesWellFormed ==
    \A r \in Requests :
        Normalized(job[r])
            => LET scenes == job[r].scenes
                   script == requests[r].script
               IN  /\ Len(scenes) >= 1
                   /\ \A i \in 1..Len(scenes) :
                         /\ scenes[i].index = i - 1
                         /\ scenes[i].index >= 0
                         /\ scenes[i].index < scenes[i].total
                         /\ scenes[i].total = Len(scenes)
                         /\ scenes[i].text # <<>>
                         /\ Head(scenes[i].text) \notin Whitespace
                         /\ scenes[i].text[Len(scenes[i].text)] \notin Whitespace
                   /\ (\A k \in 1..Len(script) : script[k] \in Whitespace)
                         => /\ Len(scenes) = 3
                            /\ \A i \in 1..3 : scenes[i].text = FallbackFragments[i]

C12_Witness ==
    \E r \in Requests :
        /\ Normalized(job[r])
        /\ Len(job[r].scenes) = 3
        /\ job[r].scenes[1].text = <<"a", ".">>
        /\ job[r].scenes[2].text = <<"?">>
        /\ job[r].scenes[3].text = <<"a">>

\* every path a job writes or deletes: its temp directory and frames, its video, its
\* metadata directory and records
JobPaths(r) ==
    LET id == job[r].jobId
    IN  {tempDir(id), frameDir(id), videoPath(id), outputDir(id)}
        \cup {filePath(id, i) : i \in 0..(TotalFrames(job[r]) - 1)}
        \cup {recordPath(id, p) : p \in requests[r].platforms}

\* C13: two jobs with distinct job identifiers write and delete disjoint sets of paths, a
\* step of one job leaves the other job's frames, video and metadata as they were, and a
\* job's encoder reads only that job's frames.
C13_JobsDoNotInterfere ==
    /\ [](\A r, o \in Requests :
            (r # o /\ job[r].jobId # "none" /\ job[o].jobId # "none"
                   /\ job[r].jobId # job[o].jobId)
                => /\ JobPaths(r) \cap JobPaths(o) = {}
                   /\ job[r].encoder # "none"
                         => job[r].encoderInput = FrameNames(TotalFrames(job[r]))
                   /\ video[job[r].jobId] = "complete" => job[r].encoder = "end"
                   /\ bundles[job[r].jobId] = job[r].publishDone \cap bundles[job[r].jobId]
                   /\ DOMAIN tmp[job[r].jobId].files \subseteq FrameNames(job[r].frameIndex + 1))
    /\ [][\A o \in Requests :
            (job'[o] = job[o] /\ job[o].jobId # "none")
                => /\ tmp'[job[o].jobId] = tmp[job[o].jobId]
                   /\ video'[job[o].jobId] = video[job[o].jobId]
                   /\ bundles'[job[o].jobId] = bundles[job[o].jobId]]_vars

C13_Witness ==
    /\ job["r1"].encoder = "running"
    /\ job["r2"].pc = "write"
    /\ job["r2"].frameIndex > 0
    /\ job["r1"].jobId # job["r2"].jobId

\* the character code of the first character of a file name component
ComponentCode(c) ==
    CASE c = "frame_" -> 102 [] c = ".png" -> 46
      [] c = "0" -> 48 [] c = "1" -> 49 [] c = "2" -> 50 [] c = "3" -> 51 [] c = "4" -> 52
      [] c = "5" -> 53 [] c = "6" -> 54 [] c = "7" -> 55 [] c = "8" -> 56 [] OTHER -> 57

\* s sorts before t under lexicographic comparison
RECURSIVE LexLess(_, _)
LexLess(s, t) ==
    IF t = <<>> THEN FALSE
    ELSE IF s = <<>> THEN TRUE
    ELSE IF ComponentCode(Head(s)) # ComponentCode(Head(t))
         THEN ComponentCode(Head(s)) < ComponentCode(Head(t))
         ELSE LexLess(Tail(s), Tail(t))

\* C14: the file names of two frames sort lexicographically in the order of their sequence
\* numbers, also beyond 9999 frames.
C14_NamesSortNumerically ==
    (call.fn = "FrameFileName" /\ call.ret # <<>>)
        => /\ call.a < call.b
           /\ LexLess(call.ret[1], call.ret[2])
           /\ ~LexLess(call.ret[2], call.ret[1])

\* the channels of the colour a tweakColor call returned, in the order r, g, b
Tinted == <<call.ret[1].r, call.ret[1].g, call.ret[1].b>>

TintReturned == call.fn = "tweakColor" /\ call.ret # <<>>

\* C15 as stated: every channel v becomes the interpolation toward white, v + (255 - v) d,
\* for d > 0 and toward black, v (1 - |d|), for d < 0, rounded to the nearest integer.
C15_TintInterpolates ==
    TintReturned
        => \A i \in 1..3 :
              LET v == call.channels[i]
                  d == call.delta
              IN  /\ Tinted[i] \in 0..255
                  /\ Tinted[i] = IF d > 0
                                 THEN MathRound(100 * v + (255 - v) * d, 100)
                                 ELSE MathRound(v * (100 + d), 100)

\* C15 as amended: every channel v becomes v + 255 d rounded to the nearest integer
\* (halves up) and clamped to 0..255.
C15_TintShiftsAndClamps ==
    TintReturned
        => \A i \in 1..3 :
              LET shifted == 100 * call.channels[i] + 255 * call.delta
                  c == Tinted[i]
              IN  /\ c \in 0..255
                  /\ shifted <= 0 => c = 0
                  /\ shifted >= 25500 => c = 255
                  /\ (shifted > 0 /\ shifted < 25500)
                        => /\ 100 * c - shifted <= 50
                           /\ shifted - 100 * c < 50

C15_Witness ==
    /\ TintReturned
    /\ call.delta = 10
    /\ call.channels = <<128, 127, 0>>
    /\ Tinted = <<154, 153, 26>>

====
